---------------------------- MODULE Spec2Model ----------------------------
(***************************************************************************)
(* A model of src/index.js: the prediction engine (Poisson score model,    *)
(* form factors, rate estimation, confidence, classification) and the      *)
(* request handler that drives it through the memoized provider lookups.   *)
(*                                                                         *)
(* JavaScript numbers are modelled in fixed point.  Every quantity has a   *)
(* stated unit; divisions truncate.  A NaN is modelled explicitly wherever  *)
(* the code can produce one (the confidence chain).                        *)
(***************************************************************************)
EXTENDS Integers, Sequences, FiniteSets, Bags, TLC

(***************************************************************************)
(* Units of the fixed-point representation.                                *)
(***************************************************************************)
LScale == 10^3          \* an expected-goal rate of 1.0 goals
PowScale == 10^3        \* Math.pow(lambda, k) = 1.0
Unit == 10^8            \* a probability mass of 1.0
Pct == 10^6             \* one percentage point (100 * mass, so 100 * Pct = Unit)
Milli == 10^3           \* a quality signal or form factor of 1.0

(***************************************************************************)
(* Arithmetic that stays inside the 32-bit integers of TLC.                *)
(***************************************************************************)
\* floor(a * b / c) by long multiplication on the decimal digits of b,
\* keeping quotient and remainder.  Needs 0 <= a, 0 <= b, 0 < c <= 10^8 and
\* a result that fits.
RECURSIVE MulDivQR(_, _, _)
MulDivQR(a, b, c) ==
    IF b = 0 THEN <<0, 0>>
    ELSE LET d == b % 10
             ac == <<a \div c, a % c>>
             rest == MulDivQR(ac[1] * c + ac[2], b \div 10, c)
             r2 == d * ac[2] + 10 * rest[2]
             q2 == d * ac[1] + 10 * rest[1]
         IN <<q2 + (r2 \div c), r2 % c>>

MulDiv(a, b, c) == MulDivQR(a, b, c)[1]

\* floor(a * b / c) when (c - 1) * b < 2^31 and the result fits
MulDivSmall(a, b, c) == (a \div c) * b + ((a % c) * b) \div c

\* floor(a * b / 10^8) for 0 <= a, b <= 10^8 (a product of two masses), by
\* splitting both into halves of four decimal digits
FMul(a, b) ==
    LET a1 == a \div 10^4
        a0 == a % 10^4
        b1 == b \div 10^4
        b0 == b % 10^4
    IN a1 * b1 + (a1 * b0 + a0 * b1 + (a0 * b0) \div 10^4) \div 10^4

\* the sum of f[c] over c in S, for f with values >= 0
Sum(S, f) == BagCardinality([c \in {e \in S : f[e] > 0} |-> f[c]])

\* an array filled once, element by element (f evaluated on all its domain)
ArrayOf(f) == f @@ <<>>

(***************************************************************************)
(* JavaScript numbers that may be NaN.                                     *)
(***************************************************************************)
NaN == [nan |-> TRUE, v |-> 0]
Num(x) == [nan |-> FALSE, v |-> x]
IsNaN(x) == x.nan

\* x - y
JSSub(x, y) == IF x.nan \/ y.nan THEN NaN ELSE Num(x.v - y.v)
\* x + y
JSAdd(x, y) == IF x.nan \/ y.nan THEN NaN ELSE Num(x.v + y.v)
\* x * n / d for exact integers n, d > 0 (a multiplication or division by a
\* decimal literal, or a change of unit)
JSScale(x, n, d) ==
    IF x.nan THEN NaN
    ELSE IF x.v >= 0 THEN Num(MulDiv(x.v, n, d)) ELSE Num(-MulDiv(-x.v, n, d))
\* Math.min(x, y), Math.max(x, y): NaN if either argument is NaN
MathMin(x, y) == IF x.nan \/ y.nan THEN NaN ELSE IF x.v <= y.v THEN x ELSE y
MathMax(x, y) == IF x.nan \/ y.nan THEN NaN ELSE IF x.v >= y.v THEN x ELSE y
\* x >= y, x <= y: false when either side is NaN
JSGe(x, y) == ~x.nan /\ ~y.nan /\ x.v >= y.v
JSLe(x, y) == ~x.nan /\ ~y.nan /\ x.v <= y.v
\* rounding a non-negative x given in units of 1/d to the nearest integer,
\* halves up (Math.round, and toFixed on a positive value)
JSRound(x, d) == IF x.nan THEN NaN ELSE Num((x.v + d \div 2) \div d)

(***************************************************************************)
(* The conversion an arithmetic operator applies to an Array operand:      *)
(* ToNumber(array.join(",")).  [] is 0, [x] is x, anything longer is NaN.  *)
(***************************************************************************)
ArrayToNumber(s) ==
    IF Len(s) = 0 THEN Num(0) ELSE IF Len(s) = 1 THEN Num(s[1]) ELSE NaN

\* The value of a property that an Array instance does not have.
Undefined == "undefined"

\* arr.key: an Array has no property `key`, whatever its elements hold.
ArrayGetKey(arr) == Undefined

(***************************************************************************)
(* factorial, poissonPMF, clamp                                            *)
(***************************************************************************)
\* factCache memoizes the same values and is not observable.
RECURSIVE factorial(_)
factorial(n) == IF n <= 1 THEN 1 ELSE n * factorial(n - 1)

\* Math.pow(lambda, k) in PowScale, lambda in LScale
RECURSIVE MathPow(_, _)
MathPow(l, k) ==
    IF k = 0 THEN PowScale ELSE MulDivSmall(MathPow(l, k - 1), l, LScale)

\* e^(-x) for 0 <= x, x in units of 1/xscale, as a mass in Unit: the
\* alternating series t0 - (t1 - (t2 - ...)) of the terms x^n/n!, from the
\* n-th on, until they vanish
RECURSIVE ExpNegSeries(_, _, _, _)
ExpNegSeries(x, xscale, n, term) ==
    IF term = 0 THEN 0
    ELSE term - ExpNegSeries(x, xscale, n + 1,
                             MulDivSmall(term, x, xscale * (n + 1)))

\* Math.exp(-lambda) for lambda >= 0 as (e^(-lambda/8))^8, a mass in Unit
MathExpNeg(l) ==
    LET e8 == ExpNegSeries(l, 8 * LScale, 0, Unit)
        e4 == FMul(e8, e8)
        e2 == FMul(e4, e4)
    IN FMul(e2, e2)

poissonPMF(lambda, k) ==
    IF lambda <= 0 THEN (IF k = 0 THEN Unit ELSE 0)
    ELSE MulDiv(MathExpNeg(lambda), MathPow(lambda, k), factorial(k) * PowScale)

clamp(v, min, max) ==
    LET inner == IF max <= v THEN max ELSE v      \* Math.min(max, v)
    IN IF min >= inner THEN min ELSE inner        \* Math.max(min, .)

\* clamp on a number that may be NaN
clampJS(x, min, max) == MathMax(Num(min), MathMin(Num(max), x))

(***************************************************************************)
(* Values of the data model.  null is a record so that it can be compared  *)
(* with every lookup result.                                               *)
(***************************************************************************)
JSNull == [isNull |-> TRUE]

\* d.response of /teams/statistics, the fields the code reads
Stats(pH, pA, pT, gfH, gfA, gaH, gaA) ==
    [isNull |-> FALSE, playedHome |-> pH, playedAway |-> pA, playedTotal |-> pT,
     goalsForHome |-> gfH, goalsForAway |-> gfA,
     goalsAgainstHome |-> gaH, goalsAgainstAway |-> gaA]

\* the list getTeamRecentForm builds: one {home, goalsFor, goalsAgainst} a match
FormList(list) == [isNull |-> FALSE, list |-> list]
FormMatch(isHome, gf, ga) == [home |-> isHome, goalsFor |-> gf, goalsAgainst |-> ga]

\* const max = 7: the last goal count of the truncated support
MaxGoals == 7

LambdaMin == (4 * LScale) \div 10       \* 0.4
LambdaMax == (32 * LScale) \div 10      \* 3.2
DefaultLambdaHome == (135 * LScale) \div 100    \* let lH = 1.35
DefaultLambdaAway == (125 * LScale) \div 100    \* let lA = 1.25
ConfidenceMin == 25
ConfidenceMax == 75

\* the ctx that buildPredictionForFixture starts from
DefaultContext ==
    [homeMatchesTotal |-> 0, awayMatchesTotal |-> 0,
     homeRecentMatches |-> 0, awayRecentMatches |-> 0,
     dataQuality |-> (3 * Milli) \div 10, sampleSize |-> (3 * Milli) \div 10,
     recentFactor |-> (3 * Milli) \div 10]

(***************************************************************************)
(* computeFormFactor: attack, defense in Milli                             *)
(***************************************************************************)
RECURSIVE SumGoalsFor(_)
SumGoalsFor(list) ==
    IF list = <<>> THEN 0 ELSE Head(list).goalsFor + SumGoalsFor(Tail(list))

RECURSIVE SumGoalsAgainst(_)
SumGoalsAgainst(list) ==
    IF list = <<>> THEN 0 ELSE Head(list).goalsAgainst + SumGoalsAgainst(Tail(list))

computeFormFactor(form) ==
    IF form.isNull \/ Len(form.list) = 0
    THEN [attack |-> Milli, defense |-> Milli, matches |-> 0]
    ELSE LET gf == SumGoalsFor(form.list)
             ga == SumGoalsAgainst(form.list)
             n == Len(form.list)
             avgGF == (gf * Milli) \div n
             avgGA == (ga * Milli) \div n
             base == (13 * Milli) \div 10
             floorGA == IF avgGA >= (3 * Milli) \div 10 THEN avgGA ELSE (3 * Milli) \div 10
             atk == (7 * Milli) \div 10 + MulDiv(3 * avgGF, Milli, 10 * base)
             def == (7 * Milli) \div 10 + MulDiv(3 * base, Milli, 10 * floorGA)
         IN [attack |-> clamp(atk, (6 * Milli) \div 10, (14 * Milli) \div 10),
             defense |-> clamp(def, (6 * Milli) \div 10, (14 * Milli) \div 10),
             matches |-> n]

(***************************************************************************)
(* Array.prototype.sort with the comparator (x, y) => y - x: a stable      *)
(* sort into descending order (insertion sort).                            *)
(***************************************************************************)
RECURSIVE InsertDesc(_, _)
InsertDesc(x, sorted) ==
    IF sorted = <<>> THEN <<x>>
    ELSE IF Head(sorted) >= x THEN <<Head(sorted)>> \o InsertDesc(x, Tail(sorted))
    ELSE <<x>> \o sorted

RECURSIVE SortDesc(_)
SortDesc(s) ==
    IF s = <<>> THEN <<>>
    ELSE InsertDesc(s[Len(s)], SortDesc(SubSeq(s, 1, Len(s) - 1)))

\* the same sort on {key, val} entries, by val
RECURSIVE InsertDescByVal(_, _)
InsertDescByVal(x, sorted) ==
    IF sorted = <<>> THEN <<x>>
    ELSE IF Head(sorted).val >= x.val
         THEN <<Head(sorted)>> \o InsertDescByVal(x, Tail(sorted))
    ELSE <<x>> \o sorted

RECURSIVE SortDescByVal(_)
SortDescByVal(s) ==
    IF s = <<>> THEN <<>>
    ELSE InsertDescByVal(s[Len(s)], SortDescByVal(SubSeq(s, 1, Len(s) - 1)))

(***************************************************************************)
(* computeDistributionClarity(h, d, a): h, d, a in Pct; the result is in   *)
(* hundredths (toFixed(2)).  `s - s` subtracts the sorted array from       *)
(* itself, so both operands go through the Array-to-number conversion.     *)
(***************************************************************************)
computeDistributionClarity(h, d, a) ==
    LET s == SortDesc(<<h, d, a>>)
        \* (s - s) / 100: percentage points to a fraction of 1 (in Unit)
        diff == JSSub(ArrayToNumber(s), ArrayToNumber(s))
        \* Math.min(1, diff / 0.4)
        ratio == MathMin(Num(Unit), JSScale(diff, 10, 4))
    IN \* Number(x.toFixed(2)): hundredths
       JSRound(ratio, Unit \div 100)

(***************************************************************************)
(* buildRealConfidence: percent is a whole number of percentage points,    *)
(* the components are in Milli (clarity in hundredths), all may be NaN.    *)
(***************************************************************************)
LabelLow == "scazuta"
LabelMedium == "medie"
LabelHigh == "ridicata"

buildRealConfidence(probHome, probDraw, probAway, context) ==
    LET h == context.homeMatchesTotal
        a == context.awayMatchesTotal
        dataQ == IF h >= 5 /\ a >= 5 THEN Milli
                 ELSE IF h >= 3 /\ a >= 3 THEN (7 * Milli) \div 10
                 ELSE (4 * Milli) \div 10
        total == ((h + a) * Milli) \div 40
        sample == IF total >= Milli THEN Milli ELSE total
        m == IF context.homeRecentMatches <= context.awayRecentMatches
             THEN context.homeRecentMatches ELSE context.awayRecentMatches
        recent == IF m >= 5 THEN Milli
                  ELSE IF m >= 3 THEN (7 * Milli) \div 10
                  ELSE IF m >= 1 THEN (5 * Milli) \div 10
                  ELSE (3 * Milli) \div 10
        clarity == computeDistributionClarity(probHome, probDraw, probAway)
        \* score, 1.0 = 100 * Milli
        score == JSAdd(JSAdd(JSAdd(Num(dataQ * 35), Num(sample * 25)),
                             JSScale(clarity, 25 * (Milli \div 100), 1)),
                       Num(recent * 15))
        pct == JSRound(MathMax(Num(0), MathMin(Num(100 * Milli), score)), Milli)
        label == IF JSGe(pct, Num(60)) THEN LabelHigh
                 ELSE IF JSGe(pct, Num(40)) THEN LabelMedium
                 ELSE LabelLow
    IN [percent |-> pct,
        components |-> [dataQ |-> dataQ, sample |-> sample,
                        clarity |-> clarity, recent |-> recent],
        label |-> label]

(***************************************************************************)
(* getMatchProfile, getDataFlag                                            *)
(***************************************************************************)
Abs(x) == IF x >= 0 THEN x ELSE -x

\* the rules with STRONG_HOME tried before GOALS_GAME
getMatchProfileStrongHomeFirst(p) ==
    LET over25 == p.goals.over25
        under25 == p.goals.under25
        h == p.probHome
        d == p.probDraw
        a == p.probAway
        b == p.btts.yes
    IN IF h >= 55 * Pct THEN "STRONG_HOME"
       ELSE IF over25 >= 60 * Pct /\ b >= 55 * Pct THEN "GOALS_GAME"
       ELSE IF h >= 50 * Pct /\ under25 >= 55 * Pct THEN "HOME_AND_UNDER"
       ELSE IF Abs(h - a) <= 10 * Pct /\ b >= 60 * Pct THEN "BALANCED_BTTS"
       ELSE IF h < 40 * Pct /\ a < 40 * Pct /\ d > 25 * Pct THEN "HIGH_VARIANCE"
       ELSE IF a >= 55 * Pct THEN "STRONG_AWAY"
       ELSE "NEUTRAL"

getMatchProfile(p) ==
    LET over25 == p.goals.over25
        under25 == p.goals.under25
        h == p.probHome
        d == p.probDraw
        a == p.probAway
        b == p.btts.yes
    IN IF over25 >= 60 * Pct /\ b >= 55 * Pct THEN "GOALS_GAME"
       ELSE IF h >= 50 * Pct /\ under25 >= 55 * Pct THEN "HOME_AND_UNDER"
       ELSE IF Abs(h - a) <= 10 * Pct /\ b >= 60 * Pct THEN "BALANCED_BTTS"
       ELSE IF h < 40 * Pct /\ a < 40 * Pct /\ d > 25 * Pct THEN "HIGH_VARIANCE"
       ELSE IF h >= 55 * Pct THEN "STRONG_HOME"
       ELSE IF a >= 55 * Pct THEN "STRONG_AWAY"
       ELSE "NEUTRAL"

getDataFlag(ctx) ==
    LET dq == ctx.dataQuality
        sm == ctx.sampleSize
        rc == ctx.recentFactor
    IN IF dq >= (8 * Milli) \div 10 /\ sm >= (6 * Milli) \div 10 /\ rc >= (7 * Milli) \div 10
       THEN "GOOD_DATA"
       ELSE IF dq >= (5 * Milli) \div 10 /\ sm >= (4 * Milli) \div 10 THEN "OK_DATA"
       ELSE "LOW_DATA"

(***************************************************************************)
(* buildPrediction                                                         *)
(***************************************************************************)
\* the scores visited if the loops stopped one goal early (h < max)
ScoresOneShort == (0..(MaxGoals - 1)) \X (0..(MaxGoals - 1))

\* the scores (h, a) the two nested loops visit
Scores == (0..MaxGoals) \X (0..MaxGoals)

\* Number(lambda.toFixed(2)): hundredths of a goal
ToFixed2(l) == (l + (LScale \div 200)) \div (LScale \div 100)

\* the mainPick expression: sort the three {key, val} entries, then `.key`
\* of the sorted Array itself
MainPickOf(probHome, probDraw, probAway) ==
    ArrayGetKey(SortDescByVal(<<[key |-> "HOME", val |-> probHome],
                                [key |-> "DRAW", val |-> probDraw],
                                [key |-> "AWAY", val |-> probAway]>>))

buildPrediction(lambdaHome, lambdaAway, ctx) ==
    LET pH == ArrayOf([k \in 0..MaxGoals |-> poissonPMF(lambdaHome, k)])
        pA == ArrayOf([k \in 0..MaxGoals |-> poissonPMF(lambdaAway, k)])
        \* const p = pH[h] * pA[a], for every score the loops visit
        p == ArrayOf([c \in Scores |-> FMul(pH[c[1]], pA[c[2]])])
        wH == Sum({c \in Scores : c[1] > c[2]}, p)
        wD == Sum({c \in Scores : c[1] = c[2]}, p)
        wA == Sum({c \in Scores : c[1] < c[2]}, p)
        ov == Sum({c \in Scores : c[1] + c[2] >= 3}, p)
        b == Sum({c \in Scores : c[1] > 0 /\ c[2] > 0}, p)
        \* x * 100: a mass in Unit read as percentage points in Pct
        probHome == wH
        probDraw == wD
        probAway == wA
        over25 == ov
        bttsYes == b
        real == buildRealConfidence(probHome, probDraw, probAway, ctx)
        confidence == clampJS(real.percent, ConfidenceMin, ConfidenceMax)
        out == [probHome |-> probHome,
                probDraw |-> probDraw,
                probAway |-> probAway,
                mainPick |-> MainPickOf(probHome, probDraw, probAway),
                confidence |-> confidence,
                confidenceDetails |->
                    [percent |-> real.percent, components |-> real.components,
                     label |-> real.label,
                     dataQuality |-> ctx.dataQuality,
                     sampleSize |-> ctx.sampleSize,
                     recentFactor |-> ctx.recentFactor],
                goals |-> [over25 |-> over25, under25 |-> 100 * Pct - over25],
                btts |-> [yes |-> bttsYes, no |-> 100 * Pct - bttsYes],
                lambdas |-> [home |-> ToFixed2(lambdaHome),
                             away |-> ToFixed2(lambdaAway)]]
    IN [probHome |-> out.probHome, probDraw |-> out.probDraw,
        probAway |-> out.probAway, mainPick |-> out.mainPick,
        confidence |-> out.confidence,
        confidenceDetails |-> out.confidenceDetails,
        goals |-> out.goals, btts |-> out.btts, lambdas |-> out.lambdas,
        matchProfile |-> getMatchProfile(out),
        dataFlag |-> getDataFlag([dataQuality |-> ctx.dataQuality,
                                  sampleSize |-> ctx.sampleSize,
                                  recentFactor |-> ctx.recentFactor])]

(***************************************************************************)
(* buildPredictionForFixture after `await Promise.all`: the rates and the  *)
(* context computed from the four lookup results, then buildPrediction.    *)
(***************************************************************************)
\* the guard as it would be if the statistics were never seen as present
BothTruthyNever(stH, stA) == FALSE

\* if (stH && stA)
BothTruthy(stH, stA) == ~stH.isNull /\ ~stA.isNull

\* the rate left as the form multipliers made it
ReClampSkipped(l) == l

\* lH = clamp(lH, 0.4, 3.2), lA = clamp(lA, 0.4, 3.2) after the form multipliers
ReClamp(l) == clamp(l, LambdaMin, LambdaMax)

\* the arguments of the call buildPrediction(lH, lA, ctx)
EstimateRates(stH, stA, rH, rA) ==
    IF BothTruthy(stH, stA)
    THEN LET hP == stH.playedHome
             hGF == stH.goalsForHome
             hGA == stH.goalsAgainstHome
             aP == stA.playedAway
             aGF == stA.goalsForAway
             aGA == stA.goalsAgainstAway
             hAvgF == IF hP # 0 THEN (hGF * LScale) \div hP ELSE (14 * LScale) \div 10
             hAvgA == IF hP # 0 THEN (hGA * LScale) \div hP ELSE (12 * LScale) \div 10
             aAvgF == IF aP # 0 THEN (aGF * LScale) \div aP ELSE (13 * LScale) \div 10
             aAvgA == IF aP # 0 THEN (aGA * LScale) \div aP ELSE (12 * LScale) \div 10
             \* (x + y) / 2, then *= 1.1 and *= 0.95, then the first clamp
             lH1 == clamp((((hAvgF + aAvgA) \div 2) * 110) \div 100, LambdaMin, LambdaMax)
             lA1 == clamp((((aAvgF + hAvgA) \div 2) * 95) \div 100, LambdaMin, LambdaMax)
             fH == computeFormFactor(rH)
             fA == computeFormFactor(rA)
             \* the form multipliers, then the second clamp
             lH2 == MulDivSmall(lH1 * fH.attack, fA.defense, Milli * Milli)
             lA2 == MulDivSmall(lA1 * fA.attack, fH.defense, Milli * Milli)
             homeTotal == stH.playedTotal
             awayTotal == stA.playedTotal
             total == ((homeTotal + awayTotal) * Milli) \div 40
         IN [lH |-> ReClamp(lH2),
             lA |-> ReClamp(lA2),
             preH |-> lH2, preA |-> lA2,
             ctx |-> [homeMatchesTotal |-> homeTotal,
                      awayMatchesTotal |-> awayTotal,
                      homeRecentMatches |-> fH.matches,
                      awayRecentMatches |-> fA.matches,
                      dataQuality |->
                          IF homeTotal >= 5 /\ awayTotal >= 5 THEN Milli
                          ELSE IF homeTotal >= 3 /\ awayTotal >= 3 THEN (7 * Milli) \div 10
                          ELSE (4 * Milli) \div 10,
                      sampleSize |-> IF total >= Milli THEN Milli ELSE total,
                      recentFactor |->
                          IF fH.matches >= 5 /\ fA.matches >= 5 THEN Milli
                          ELSE IF fH.matches >= 3 /\ fA.matches >= 3 THEN (7 * Milli) \div 10
                          ELSE IF fH.matches >= 1 /\ fA.matches >= 1 THEN (5 * Milli) \div 10
                          ELSE (3 * Milli) \div 10]]
    ELSE [lH |-> DefaultLambdaHome, lA |-> DefaultLambdaAway,
          preH |-> DefaultLambdaHome, preA |-> DefaultLambdaAway,
          ctx |-> DefaultContext]

\* what buildPredictionForFixture returns for the four lookup results: the
\* prediction, with the arguments buildPrediction was called with
PredictFromLookups(stH, stA, rH, rA) ==
    LET est == EstimateRates(stH, stA, rH, rA)
    IN [args |-> est, prediction |-> buildPrediction(est.lH, est.lA, est.ctx)]

(***************************************************************************)
(* Bounded input domains.                                                  *)
(***************************************************************************)
GridSteps == 14         \* steps of the grid of rates over [0.4, 3.2]
MaxRate == 3            \* most goals a match that statistics average over
VenueMatches == 5       \* matches played at a venue, when any

LambdaGrid ==
    {LambdaMin + (i * (LambdaMax - LambdaMin)) \div GridSteps : i \in 0..GridSteps}

\* the ctx of the full path for given match totals and recent-sample counts
FullContext(homeTotal, awayTotal, homeRecent, awayRecent) ==
    EstimateRates(Stats(0, 0, homeTotal, 0, 0, 0, 0), Stats(0, 0, awayTotal, 0, 0, 0, 0),
                  IF homeRecent = 0 THEN JSNull
                  ELSE FormList([i \in 1..homeRecent |-> FormMatch(TRUE, 1, 1)]),
                  IF awayRecent = 0 THEN JSNull
                  ELSE FormList([i \in 1..awayRecent |-> FormMatch(FALSE, 1, 1)])).ctx

ContextDomain ==
    {DefaultContext} \cup
    {FullContext(t[1], t[2], r[1], r[2]) :
        t \in {<<0, 0>>, <<3, 4>>, <<20, 20>>}, r \in {<<0, 0>>, <<5, 3>>, <<5, 5>>}}

StatsDomain ==
    {Stats(0, 0, 0, 0, 0, 0, 0)} \cup
    {Stats(VenueMatches, VenueMatches, 2 * VenueMatches,
           f * VenueMatches, f * VenueMatches, g * VenueMatches, g * VenueMatches) :
        f \in 0..MaxRate, g \in 0..MaxRate}

FormDomain ==
    {FormList([i \in 1..5 |-> FormMatch(TRUE, MaxRate, 0)]),
     FormList([i \in 1..3 |-> FormMatch(FALSE, 0, MaxRate)]),
     FormList(<<FormMatch(TRUE, 1, 1)>>)}

(***************************************************************************)
(* The provider, as the server sees it.                                    *)
(***************************************************************************)
MaxFixtures == 2        \* fixtures the provider lists for a request, when any

Teams == {1, 2}         \* team ids; 0 stands for a missing id
Requests == {1, 2}      \* concurrent GET /api/matches requests

\* COMPETITIONS: the one the requests ask for; any other id is unknown
League == 39
UnknownCompetition == League + 1

\* the fixtures the provider lists: the two teams meet, then a fixture
\* whose home id is missing, then return legs
Schedule ==
    [k \in 1..MaxFixtures |->
        IF k = 1 THEN [home |-> 1, away |-> 2]
        ELSE IF k = 2 THEN [home |-> 0, away |-> 2]
        ELSE [home |-> 2, away |-> 1]]

\* what getFixturesForCompetition may return: the list, or [] when both
\* queries come back empty or fail
FixtureLists == {<<>>, Schedule}

\* /teams/statistics for a team: team t scores t a match and concedes one
ProviderStats(team) ==
    Stats(VenueMatches, VenueMatches, 2 * VenueMatches,
          team * VenueMatches, team * VenueMatches, VenueMatches, VenueMatches)

\* a goal count the provider left null
NullGoals == 0 - 1

\* /fixtures?last=5 for a team: a home win and an away match without a score
ProviderRecent(team) ==
    <<[homeId |-> team, awayId |-> 0, goalsHome |-> team + 1, goalsAway |-> 0],
      [homeId |-> 0, awayId |-> team, goalsHome |-> NullGoals, goalsAway |-> NullGoals]>>

\* how one attempt of apiFetch ends: a body with data, a body with an empty
\* response, an HTTP error below 500, an HTTP error from 500 up, or fetch
\* itself rejecting (an error without a status)
Attempts == {"data", "empty", "http4xx", "http5xx", "network"}

\* retries = 2
Retries == 2

(***************************************************************************)
(* apiFetchWithRetry on the outcomes of its successive attempts: the       *)
(* outcome it returns or throws, and the attempts it made.                 *)
(***************************************************************************)
RECURSIVE RetryLoop(_, _)
RetryLoop(outcomes, i) ==
    LET o == outcomes[i + 1]
    IN IF o \in {"data", "empty"} THEN [threw |-> FALSE, body |-> o, attempts |-> i + 1]
       ELSE IF o = "http4xx" \/ i + 1 > Retries
            THEN [threw |-> TRUE, body |-> o, attempts |-> i + 1]
       ELSE RetryLoop(outcomes, i + 1)

apiFetchWithRetry(outcomes) == RetryLoop(outcomes, 0)

\* every way a call of apiFetchWithRetry can end: what it returns or throws
FetchOutcomes ==
    {[threw |-> x.threw, body |-> x.body] :
        x \in {apiFetchWithRetry(o) : o \in [1..(Retries + 1) -> Attempts]}}

(***************************************************************************)
(* getTeamStats and getTeamRecentForm after the provider call.             *)
(***************************************************************************)
\* x || 0
OrZero(x) == IF x = NullGoals THEN 0 ELSE x

\* resp.map(...): the recent fixtures from the team's side
RecentFormOf(resp, team) ==
    [i \in 1..Len(resp) |->
        LET f == resp[i]
            isHome == f.homeId = team
        IN FormMatch(isHome,
                     OrZero(IF isHome THEN f.goalsHome ELSE f.goalsAway),
                     OrZero(IF isHome THEN f.goalsAway ELSE f.goalsHome))]

\* what getTeamStats caches and returns once apiFetchWithRetry is over
StatsResult(fetched, team) ==
    IF fetched.threw THEN JSNull
    ELSE IF fetched.body = "data" THEN ProviderStats(team)
    ELSE JSNull

\* what getTeamRecentForm caches and returns once apiFetchWithRetry is over
FormResult(fetched, team) ==
    IF fetched.threw THEN JSNull
    ELSE LET resp == IF fetched.body = "data" THEN ProviderRecent(team) ELSE <<>>
         IN IF Len(resp) = 0 THEN JSNull ELSE FormList(RecentFormOf(resp, team))

(***************************************************************************)
(* State.                                                                  *)
(***************************************************************************)
VARIABLES
    call,            \* a pending call of an engine function, with its arguments
    ret,             \* what the call returned
    teamStatsCache,  \* team -> [has, val]: the entry of the team's key
    teamFormCache,   \* team -> [has, val]: the entry of the team's key
    reqs             \* the /api/matches handler of each request

vars == <<call, ret, teamStatsCache, teamFormCache, reqs>>
server == <<teamStatsCache, teamFormCache, reqs>>
engine == <<call, ret>>

NoCall == [fn |-> "none"]
NoReturn == [returned |-> FALSE]

\* the four lookups of Promise.all, in the order of its array
Slots == 1..4
SlotIsStats(i) == i <= 2
SlotTeam(f, i) == IF i \in {1, 3} THEN f.home ELSE f.away

NoLookup == [st |-> "none", val |-> JSNull]
IdleRequest ==
    [pc |-> "idle", fixtures |-> <<>>, idx |-> 1,
     lk |-> [i \in Slots |-> NoLookup],
     matches |-> <<>>,     \* the predictions pushed so far
     outOfOrder |-> FALSE, \* this iteration, a lookup settled while one
                           \* before it in the array was pending
     apiErrors |-> <<>>]

EmptyCache == [has |-> FALSE, val |-> JSNull]

InitServer ==
    /\ teamStatsCache = [t \in Teams |-> EmptyCache]
    /\ teamFormCache = [t \in Teams |-> EmptyCache]
    /\ reqs = [r \in Requests |-> IdleRequest]

InitEngine == call = NoCall /\ ret = NoReturn

(***************************************************************************)
(* GET /api/matches                                                        *)
(***************************************************************************)
\* the handler up to `await getFixturesForCompetition(comp)`
Receive(r, competitionId) ==
    /\ reqs[r].pc = "idle"
    /\ reqs' = [reqs EXCEPT ![r] =
          IF competitionId # League
          THEN [@ EXCEPT !.pc = "done", !.apiErrors = <<"Competitie necunoscuta">>]
          ELSE [@ EXCEPT !.pc = "fixtures"]]
    /\ UNCHANGED <<teamStatsCache, teamFormCache, engine>>

\* getFixturesForCompetition returns: the list of one of its two queries, or []
FixturesReturn(r, list) ==
    /\ reqs[r].pc = "fixtures"
    /\ reqs' = [reqs EXCEPT ![r] =
          IF Len(list) = 0
          THEN [@ EXCEPT !.pc = "done", !.apiErrors = <<"Nu exista meciuri">>]
          ELSE [@ EXCEPT !.pc = "loop", !.fixtures = list, !.idx = 1]]
    /\ UNCHANGED <<teamStatsCache, teamFormCache, engine>>

\* teamStatsCache or teamFormCache, for a slot
CacheOf(i) == IF SlotIsStats(i) THEN teamStatsCache ELSE teamFormCache

\* the synchronous part of getTeamStats / getTeamRecentForm: a cached value
\* is returned, otherwise the provider is called and the lookup is pending
LookupCall(f, i) ==
    LET c == CacheOf(i)[SlotTeam(f, i)]
    IN IF c.has THEN [st |-> "done", val |-> c.val]
       ELSE [st |-> "pending", val |-> JSNull]

\* resuming as soon as one lookup has settled, as Promise.race would
AnySettled(lk) == \E i \in Slots : lk[i].st = "done"

\* await Promise.all([...]) resumes once every lookup has settled
AllSettled(lk) == \A i \in Slots : lk[i].st = "done"

\* const [stH, stA, rH, rA] = await Promise.all([...]): the results, by position
GatherResults(lk) == [i \in Slots |-> lk[i].val]

\* matches.push(...) of one prediction; the loop moves on
Pushed(q, prediction) ==
    [q EXCEPT !.matches = Append(@, prediction),
              !.idx = @ + 1,
              !.lk = [i \in Slots |-> NoLookup],
              !.pc = "loop"]

\* the values a lookup can resolve to, from the provider or from a cache
StatsValues == {JSNull} \cup {StatsResult(x, t) : x \in FetchOutcomes, t \in Teams}
FormValues == {JSNull} \cup {FormResult(x, t) : x \in FetchOutcomes, t \in Teams}

\* buildPredictionForFixture after the await, tabulated once over the four
\* results it can be resumed with
ResumeTable ==
    ArrayOf([res \in StatsValues \X StatsValues \X FormValues \X FormValues |->
                PredictFromLookups(res[1], res[2], res[3], res[4]).prediction])

\* buildPredictionForFixture without a home or an away id
DefaultPrediction == buildPrediction(DefaultLambdaHome, DefaultLambdaAway, DefaultContext)

\* the j-th iteration of `for (const f of fixtures)` calls
\* buildPredictionForFixture: with both ids it starts the four lookups and
\* awaits them; without, it goes straight to buildPrediction
BeginFixture(r, j) ==
    /\ reqs[r].pc = "loop"
    /\ reqs[r].idx = j
    /\ j <= Len(reqs[r].fixtures)
    /\ LET f == reqs[r].fixtures[j]
       IN IF f.home # 0 /\ f.away # 0
          THEN reqs' = [reqs EXCEPT ![r].pc = "await",
                                    ![r].outOfOrder = FALSE,
                                    ![r].lk = [i \in Slots |-> LookupCall(f, i)]]
          ELSE reqs' = [reqs EXCEPT ![r] =
                           Pushed([@ EXCEPT !.outOfOrder = FALSE], DefaultPrediction)]
    /\ UNCHANGED <<teamStatsCache, teamFormCache, engine>>

\* a pending lookup's apiFetchWithRetry ends as `fetched`: the result is
\* cached and the lookup resolves (a throw is caught inside the lookup)
LookupSettle(r, i, fetched) ==
    /\ reqs[r].pc = "await"
    /\ reqs[r].lk[i].st = "pending"
    /\ LET f == reqs[r].fixtures[reqs[r].idx]
           team == SlotTeam(f, i)
           val == IF SlotIsStats(i) THEN StatsResult(fetched, team)
                  ELSE FormResult(fetched, team)
       IN /\ reqs' = [reqs EXCEPT ![r].lk[i] = [st |-> "done", val |-> val],
                                  ![r].outOfOrder =
                                      @ \/ \E j \in 1..(i - 1) :
                                               reqs[r].lk[j].st = "pending"]
          /\ IF SlotIsStats(i)
             THEN /\ teamStatsCache' = [teamStatsCache EXCEPT ![team] =
                                           [has |-> TRUE, val |-> val]]
                  /\ UNCHANGED teamFormCache
             ELSE /\ teamFormCache' = [teamFormCache EXCEPT ![team] =
                                          [has |-> TRUE, val |-> val]]
                  /\ UNCHANGED teamStatsCache
    /\ UNCHANGED engine

\* Promise.all has resolved: the rest of buildPredictionForFixture, and the
\* push of its prediction
ResumeFixtureOf(r) ==
    /\ reqs[r].pc = "await"
    /\ AllSettled(reqs[r].lk)
    /\ LET res == GatherResults(reqs[r].lk)
       IN reqs' = [reqs EXCEPT ![r] =
              Pushed(@, ResumeTable[<<res[1], res[2], res[3], res[4]>>])]
    /\ UNCHANGED <<teamStatsCache, teamFormCache, engine>>

\* the loop is over: res.json({ matches, apiErrors: errors })
Respond(r) ==
    /\ reqs[r].pc = "loop"
    /\ reqs[r].idx > Len(reqs[r].fixtures)
    /\ reqs' = [reqs EXCEPT ![r].pc = "done", ![r].outOfOrder = FALSE]
    /\ UNCHANGED <<teamStatsCache, teamFormCache, engine>>

Init == InitServer /\ InitEngine

Next ==
    \E r \in Requests :
        \/ \E c \in {League, UnknownCompetition} : Receive(r, c)
        \/ \E list \in FixtureLists : FixturesReturn(r, list)
        \/ \E j \in 1..MaxFixtures : BeginFixture(r, j)
        \/ \E i \in Slots, fetched \in FetchOutcomes : LookupSettle(r, i, fetched)
        \/ ResumeFixtureOf(r)
        \/ Respond(r)

Spec == Init /\ [][Next]_vars

(***************************************************************************)
(* buildPrediction called on a grid of rates and contexts.                 *)
(***************************************************************************)
InitBuild ==
    /\ call \in {[fn |-> "buildPrediction", lambdaHome |-> lh, lambdaAway |-> la, ctx |-> c] :
                    lh \in LambdaGrid, la \in LambdaGrid, c \in ContextDomain}
    /\ ret = NoReturn
    /\ InitServer

CallBuildPrediction ==
    /\ call.fn = "buildPrediction"
    /\ ~ret.returned
    /\ ret' = [returned |-> TRUE,
               value |-> buildPrediction(call.lambdaHome, call.lambdaAway, call.ctx)]
    /\ UNCHANGED <<call, server>>

NextBuild == CallBuildPrediction

SpecBuild == InitBuild /\ [][NextBuild]_vars

(***************************************************************************)
(* buildPredictionForFixture resumed with given lookup results.            *)
(***************************************************************************)
InitFixture ==
    /\ call \in {[fn |-> "buildPredictionForFixture",
                  stH |-> sh, stA |-> sa, rH |-> fh, rA |-> fa] :
                    sh \in StatsDomain \cup {JSNull}, sa \in StatsDomain \cup {JSNull},
                    fh \in FormDomain \cup {JSNull}, fa \in FormDomain \cup {JSNull}}
    /\ ret = NoReturn
    /\ InitServer

ResumeFixture ==
    /\ call.fn = "buildPredictionForFixture"
    /\ ~ret.returned
    /\ ret' = [returned |-> TRUE,
               value |-> PredictFromLookups(call.stH, call.stA, call.rH, call.rA)]
    /\ UNCHANGED <<call, server>>

NextFixture == ResumeFixture

SpecFixture == InitFixture /\ [][NextFixture]_vars

(***************************************************************************)
(* Properties of buildPrediction (under SpecBuild).                        *)
(***************************************************************************)
\* the prediction a call of buildPrediction returned
Built == ret.value

\* C1: every prediction buildPrediction returns has a `confidence` that is
\* a number in the closed band [25, 75].
C1_ConfidenceInBand ==
    (call.fn = "buildPrediction" /\ ret.returned) =>
        /\ ~IsNaN(Built.confidence)
        /\ Built.confidence.v >= ConfidenceMin
        /\ Built.confidence.v <= ConfidenceMax

\* the outcome with the greatest probability, the first of HOME, DRAW, AWAY
\* on a tie
MostProbable(h, d, a) ==
    IF h >= d /\ h >= a THEN "HOME" ELSE IF d >= a THEN "DRAW" ELSE "AWAY"

\* C5: the mainPick of every prediction is one of HOME, DRAW, AWAY and names
\* the outcome with the greatest probability, the first in the order HOME,
\* DRAW, AWAY on a tie.
C5_MainPickMostProbable ==
    (call.fn = "buildPrediction" /\ ret.returned) =>
        /\ Built.mainPick \in {"HOME", "DRAW", "AWAY"}
        /\ Built.mainPick = MostProbable(Built.probHome, Built.probDraw, Built.probAway)

\* the seven rules of the match profile, in their order: condition, tag
ProfileRules(p) ==
    <<[holds |-> p.goals.over25 >= 60 * Pct /\ p.btts.yes >= 55 * Pct,
       tag |-> "GOALS_GAME"],
      [holds |-> p.probHome >= 50 * Pct /\ p.goals.under25 >= 55 * Pct,
       tag |-> "HOME_AND_UNDER"],
      [holds |-> Abs(p.probHome - p.probAway) <= 10 * Pct /\ p.btts.yes >= 60 * Pct,
       tag |-> "BALANCED_BTTS"],
      [holds |-> p.probHome < 40 * Pct /\ p.probAway < 40 * Pct /\ p.probDraw > 25 * Pct,
       tag |-> "HIGH_VARIANCE"],
      [holds |-> p.probHome >= 55 * Pct, tag |-> "STRONG_HOME"],
      [holds |-> p.probAway >= 55 * Pct, tag |-> "STRONG_AWAY"],
      [holds |-> TRUE, tag |-> "NEUTRAL"]>>

\* the tags of the rules of a prediction that hold with none before them
\* holding
FirstRuleTags(p) ==
    LET rules == ProfileRules(p)
    IN {rules[i].tag : i \in {k \in 1..Len(rules) :
                                 /\ rules[k].holds
                                 /\ \A j \in 1..(k - 1) : ~rules[j].holds}}

\* C6: getMatchProfile is total and priority-ordered: the tag of every
\* prediction is the tag of the first of the rules 1..7 whose condition holds.
C6_ProfileIsFirstRule ==
    (call.fn = "buildPrediction" /\ ret.returned) =>
        FirstRuleTags(Built) = {Built.matchProfile}

\* a prediction that meets rule 1 and rule 5 is tagged GOALS_GAME
C6_GoalsGameOverStrongHome ==
    /\ call.fn = "buildPrediction" /\ ret.returned
    /\ Built.goals.over25 >= 60 * Pct /\ Built.btts.yes >= 55 * Pct
    /\ Built.probHome >= 55 * Pct
    /\ Built.matchProfile = "GOALS_GAME"

\* probHome + probDraw + probAway, in Pct
OutcomeSum(p) == p.probHome + p.probDraw + p.probAway

\* 1e-6 of a percentage point, and the most the fixed-point arithmetic of
\* the model can add to or take from a sum of 64 masses (a hundredth of a
\* point, well over 64 roundings)
SumTolerance == Pct \div 10^6
ModelRounding == Pct \div 100

\* C9 as stated: for rates in [0.4, 3.2] the three outcome probabilities sum
\* to 100 within a tolerance of 1e-6.
C9_SumIsHundred ==
    (call.fn = "buildPrediction" /\ ret.returned) =>
        Abs(OutcomeSum(Built) - 100 * Pct) <= SumTolerance + ModelRounding

\* C9 as amended: the three outcome probabilities are the mass of the
\* scores up to 7 goals a side, not normalized: for rates in [0.4, 3.2]
\* their sum is at most 100 and at least 96.
C9_SumIsTruncatedMass ==
    (call.fn = "buildPrediction" /\ ret.returned) =>
        /\ OutcomeSum(Built) <= 100 * Pct + ModelRounding
        /\ OutcomeSum(Built) >= 96 * Pct

\* both rates at 3.2: more than three points of the mass are truncated
C9_ThreePointsShort ==
    /\ call.fn = "buildPrediction" /\ ret.returned
    /\ call.lambdaHome = LambdaMax /\ call.lambdaAway = LambdaMax
    /\ OutcomeSum(Built) < 97 * Pct
    /\ OutcomeSum(Built) >= 96 * Pct

(***************************************************************************)
(* Properties of buildPredictionForFixture (under SpecFixture).            *)
(***************************************************************************)
\* what buildPredictionForFixture returned, and the rates it passed on
Predicted == ret.value.prediction
Passed == ret.value.args

\* C7: with both teams' season statistics unavailable the prediction has
\* dataFlag LOW_DATA, a confidence percentage before the clamp that is at
\* most 40, and the confidence label "low".
C7_NoStatsLowConfidence ==
    (call.fn = "buildPredictionForFixture" /\ ret.returned
        /\ call.stH.isNull /\ call.stA.isNull) =>
        /\ Predicted.dataFlag = "LOW_DATA"
        /\ JSLe(Predicted.confidenceDetails.percent, Num(40))
        /\ Predicted.confidenceDetails.label = LabelLow

\* C8: the rates buildPredictionForFixture passes to buildPrediction are
\* within [0.4, 3.2] on every path.
C8_RatesClamped ==
    (call.fn = "buildPredictionForFixture" /\ ret.returned) =>
        /\ Passed.lH >= LambdaMin /\ Passed.lH <= LambdaMax
        /\ Passed.lA >= LambdaMin /\ Passed.lA <= LambdaMax

\* the form multipliers pushed a rate past 3.2 after the first clamp, and
\* the second clamp brought it back
C8_FormPushedPastMax ==
    /\ call.fn = "buildPredictionForFixture" /\ ret.returned
    /\ ~call.stH.isNull /\ ~call.stA.isNull /\ ~call.rH.isNull
    /\ Passed.preH > LambdaMax
    /\ Passed.lH = LambdaMax

(***************************************************************************)
(* Properties of GET /api/matches (under Spec).                            *)
(***************************************************************************)
\* request r pushes a prediction in this step
Pushes(r) == Len(reqs'[r].matches) = Len(reqs[r].matches) + 1

\* the prediction request r pushes in this step
PushedNow(r) == reqs'[r].matches[Len(reqs'[r].matches)]

\* a prediction of the degraded-defaults path: rates 1.35 and 1.25, the
\* three quality signals 0.3
Degraded(p) ==
    /\ p.lambdas.home = ToFixed2(DefaultLambdaHome)
    /\ p.lambdas.away = ToFixed2(DefaultLambdaAway)
    /\ p.confidenceDetails.dataQuality = (3 * Milli) \div 10
    /\ p.confidenceDetails.sampleSize = (3 * Milli) \div 10
    /\ p.confidenceDetails.recentFactor = (3 * Milli) \div 10

\* C2 as stated: whenever any of the four lookups returned null or raised,
\* the prediction is computed on the degraded-defaults path.
C2_AnyNullDegrades ==
    [][\A r \in Requests :
          (Pushes(r) /\ \E i \in Slots : reqs[r].lk[i].val = JSNull)
              => Degraded(PushedNow(r))]_vars

\* C2 as amended: every fixture gets a prediction, and it is computed on the
\* degraded-defaults path exactly when a team id is missing or the season
\* statistics of either team came back null (a lookup that raises resolves
\* to null); a null recent form alone leaves the full path, with neutral
\* form factors.
C2_NullStatsDegrade ==
    [][\A r \in Requests :
          /\ (reqs[r].pc = "await" /\ reqs'[r].pc # "await") => Pushes(r)
          /\ Pushes(r) =>
                (Degraded(PushedNow(r)) <=>
                    \/ reqs[r].pc = "loop"
                    \/ reqs[r].lk[1].val = JSNull
                    \/ reqs[r].lk[2].val = JSNull)]_vars

\* a request predicted the first fixture on the degraded-defaults path
\* after the home team's statistics came back null
C2_DegradedAfterNullStats ==
    \E r \in Requests :
        /\ Len(reqs[r].matches) >= 1
        /\ Degraded(reqs[r].matches[1])
        /\ teamStatsCache[Schedule[1].home] = [has |-> TRUE, val |-> JSNull]
        /\ teamStatsCache[Schedule[1].away].val # JSNull
        /\ \A q \in Requests \ {r} : reqs[q].pc = "idle"

\* C3: the rate computation starts only after all four lookups have
\* completed, and the prediction is the one computed from their results by
\* position, whatever the order they completed in.
C3_ResumesAfterAllFour ==
    [][\A r \in Requests :
          (reqs[r].pc = "await" /\ reqs'[r].pc # "await") =>
              /\ \A i \in Slots : reqs[r].lk[i].st = "done"
              /\ Pushes(r)
              /\ PushedNow(r) =
                    PredictFromLookups(reqs[r].lk[1].val, reqs[r].lk[2].val,
                                       reqs[r].lk[3].val, reqs[r].lk[4].val).prediction]_vars

\* a prediction was pushed for a fixture whose lookups completed in another
\* order than that of the array
C3_PushedAfterOutOfOrder ==
    \E r \in Requests :
        /\ reqs[r].pc = "loop"
        /\ reqs[r].outOfOrder
        /\ Len(reqs[r].matches) >= 1

\* C4: while the lookups of one fixture of a request are pending, the next
\* fixture of the request can begin its own lookups and computation.
C4_NextFixtureNotBlocked ==
    \A r \in Requests :
        (/\ reqs[r].pc = "await"
         /\ ~AllSettled(reqs[r].lk)
         /\ reqs[r].idx < Len(reqs[r].fixtures))
            => ENABLED BeginFixture(r, reqs[r].idx + 1)

\* the invocations of getTeamStats for a team that are waiting for the
\* provider: each missed the cache and called it
StatsInFlight(team) ==
    {<<r, i>> \in Requests \X {1, 2} :
        /\ reqs[r].pc = "await"
        /\ reqs[r].lk[i].st = "pending"
        /\ SlotTeam(reqs[r].fixtures[reqs[r].idx], i) = team}

\* C10: for each key at most one invocation of getTeamStats contacts the
\* provider, under any interleaving of concurrent invocations.
C10_OneProviderCallPerKey ==
    \A team \in Teams : Cardinality(StatsInFlight(team)) <= 1
=============================================================================
